---- MODULE Spec2Model ----
\* A model of the blog application of src/main.py: the three tables (users,
\* blog_posts, comments), the login session, and one action per route handler.
\* A request is handled in one step, except /register, whose pre-check read
\* (line 97) and insert-and-commit (lines 103-104) are two steps, so that
\* several registration requests can interleave.
EXTENDS Integers, Sequences, FiniteSets, TLC

VARIABLES users, posts, comments, current_user, pending, registered, resp

vars == <<users, posts, comments, current_user, pending, registered, resp>>

\* ------------------------------------------------------------------ bounds
MaxUsers == 2
MaxPostId == 2
MaxComments == 1
NumWorkers == 2

\* ------------------------------------------------------- program constants
\* current_user.is_anonymous: the session holds no user id.
Anonymous == 0
\* current_user.id == 1: the administrator.
AdminId == 1
\* A nullable foreign key column holding no reference.
NULL == 0

\* --------------------------------------------------------------- inputs
Emails == {"a@x.com", "b@x.com"}
Passwords == {"pw", "pw2"}
Names == {"Alice"}
Salts == {"s1", "s2"}
Titles == {"Hello World", "Second"}
Subtitles == {"sub"}
Bodies == {"body"}
ImgUrls == {"http://img"}
CommentTexts == {"nice"}
Dates == {<<2026, 11, 3>>}
HttpMethods == {"GET", "POST"}
Workers == 1..NumWorkers
PostIds == 1..MaxPostId

\* The form of a request: the data of its fields, and whether the form's
\* validators accept them.
EmptyForm ==
    [valid |-> FALSE, email |-> "", password |-> "", name |-> "", title |-> "",
     subtitle |-> "", body |-> "", img_url |-> "", comment |-> ""]

RegisterForms ==
    {[EmptyForm EXCEPT !.valid = TRUE, !.email = e, !.password = p, !.name = n] :
        e \in Emails, p \in Passwords, n \in Names}

LoginForms ==
    {[EmptyForm EXCEPT !.valid = TRUE, !.email = e, !.password = p] :
        e \in Emails, p \in Passwords}

CommentForms ==
    {[EmptyForm EXCEPT !.valid = TRUE, !.comment = c] : c \in CommentTexts}

CreatePostForms ==
    {[EmptyForm EXCEPT !.valid = TRUE, !.title = t, !.subtitle = s, !.body = b,
                       !.img_url = i] :
        t \in Titles, s \in Subtitles, b \in Bodies, i \in ImgUrls}

\* What a request to a form route carries: nothing (GET), fields the
\* validators reject, or valid fields.
Submissions(method, forms) ==
    IF method = "POST" THEN {EmptyForm} \cup forms ELSE {EmptyForm}

\* ----------------------------------------------------------- framework
\* The methods each @app.route accepts (GET when none is given).
Methods(route) ==
    CASE route = "get_all_posts" -> {"GET"}
      [] route = "register"      -> {"GET", "POST"}
      [] route = "login"         -> {"GET", "POST"}
      [] route = "logout"        -> {"GET"}
      [] route = "show_post"     -> {"GET", "POST"}
      [] route = "add_new_post"  -> {"GET", "POST"}
      [] route = "edit_post"     -> {"GET"}
      [] route = "delete_post"   -> {"GET"}

\* form.validate_on_submit(): the request submits (POST) and the fields pass.
validate_on_submit(method, form) == method = "POST" /\ form.valid

\* A response: the request it answers and what the requester observes.
\* status 0: the request is still being handled.
Response(route, method, by, post_id, form, status, flash, location) ==
    [route |-> route, method |-> method, by |-> by, post_id |-> post_id,
     form |-> form, status |-> status, flash |-> flash, location |-> location]

NoResponse == Response("", "", Anonymous, NULL, EmptyForm, 0, "", "")

\* ------------------------------------------------------ credential store
\* The PBKDF2 digest of a password under a salt: one-way and free of
\* collisions, so a digest stands for exactly one (salt, password) pair.
Pbkdf2(password, salt) == <<"pbkdf2:sha256", salt, password>>

\* generate_password_hash(password, method="pbkdf2:sha256", salt_length=8):
\* the method, the salt drawn for this call, and the digest.
generate_password_hash(password, salt) ==
    [method |-> "pbkdf2:sha256", salt |-> salt, digest |-> Pbkdf2(password, salt)]

\* A check that accepts every password.
check_password_hash_any(pwhash, password) == TRUE

\* check_password_hash(pwhash, password): recomputes the digest with the salt
\* stored in pwhash and compares.
check_password_hash(pwhash, password) ==
    Pbkdf2(password, pwhash.salt) = pwhash.digest

\* -------------------------------------------------------------- the store
Max(S) == CHOOSE x \in S : \A y \in S : y <= x

\* An INTEGER PRIMARY KEY column: a new row gets the largest id in use plus one.
NextId(ids) == IF ids = {} THEN 1 ELSE Max(ids) + 1

UserRows(us) == {us[i] : i \in DOMAIN us}
UserIds(us) == {u.id : u \in UserRows(us)}
PostIdsOf(ps) == {p.id : p \in ps}
CommentRows(cs) == {cs[i] : i \in DOMAIN cs}

\* Query.first(): the row with the lowest id, or None (the empty set).
First(rows) == {r \in rows : \A q \in rows : r.id <= q.id}

\* User.query.filter_by(email=...).first()
UserByEmail(us, email) == First({u \in UserRows(us) : u.email = email})

\* User.query.get(user_id) / BlogPost.query.get(post_id)
UserGet(us, user_id) == {u \in UserRows(us) : u.id = user_id}
PostGet(ps, post_id) == {p \in ps : p.id = post_id}

\* A users.email column without the unique constraint.
EmailNotConstrained(us, email) == TRUE

\* email = db.Column(db.String(50), unique=True): the commit of a second row
\* with the same email raises IntegrityError.
EmailUnique(us, email) == \A u \in UserRows(us) : u.email # email

\* title = db.Column(db.String(250), unique=True)
TitleUnique(ps, title) == \A p \in ps : p.title # title

\* db.session.add(new_user); db.session.commit()
InsertUser(us, email, pwhash, name) ==
    Append(us, [id |-> NextId(UserIds(us)), email |-> email,
                password |-> pwhash, name |-> name])

\* load_user(user_id): the user the session's id names, Anonymous when the
\* session holds none or the id names no row.
load_user(us, user_id) ==
    IF UserGet(us, user_id) # {} THEN user_id ELSE Anonymous

\* The identity the proxy current_user resolves to in a request.
Identity == load_user(users, current_user)

\* A relationship attribute takes a mapped instance (or None); the anonymous
\* user object is not one, and assigning it raises AttributeError.
IsMapped(identity) == identity # Anonymous

\* date.today().strftime("%B %d, %Y"): month name, two-digit day, year.
MonthName(m) ==
    <<"January", "February", "March", "April", "May", "June", "July",
      "August", "September", "October", "November", "December">>[m]

strftime(d) == <<MonthName(d[2]), d[3] \div 10, d[3] % 10, d[1]>>

\* ----------------------------------------------------------------- Init
Idle == [busy |-> FALSE, form |-> EmptyForm]

Init ==
    /\ users = <<>>
    /\ posts = {}
    /\ comments = <<>>
    /\ current_user = Anonymous
    /\ pending = [w \in Workers |-> Idle]
    /\ registered = {}
    /\ resp = NoResponse

\* A store in which two users have registered: the administrator (the first
\* user, id 1) and one more.
InitBlog ==
    /\ users = InsertUser(
                 InsertUser(<<>>, "a@x.com", generate_password_hash("pw", "s1"), "Alice"),
                 "b@x.com", generate_password_hash("pw2", "s2"), "Alice")
    /\ posts = {}
    /\ comments = <<>>
    /\ current_user = Anonymous
    /\ pending = [w \in Workers |-> Idle]
    /\ registered = {<<"a@x.com", "pw">>, <<"b@x.com", "pw2">>}
    /\ resp = NoResponse

\* ---------------------------------------------------------------- routing
\* A request of a method the route does not accept: 405, the view never runs.
MethodNotAllowed(route, method, post_id, form) ==
    /\ method \notin Methods(route)
    /\ resp' = Response(route, method, Identity, post_id, form, 405, "", "")
    /\ UNCHANGED <<users, posts, comments, current_user, pending, registered>>

\* ------------------------------------------------------------- /register
\* register(), lines 94-98 and 106-109: the form, the pre-check read of the
\* email, and the answer when no insert follows.
RegisterCheck(w) ==
    /\ ~pending[w].busy
    /\ \E method \in HttpMethods : \E form \in Submissions(method, RegisterForms) :
        IF ~validate_on_submit(method, form)
        THEN /\ resp' = Response("register", method, Identity, NULL, form, 200, "", "")
             /\ UNCHANGED pending
        ELSE IF UserByEmail(users, form.email) = {}
        THEN /\ pending' = [pending EXCEPT ![w] = [busy |-> TRUE, form |-> form]]
             /\ resp' = Response("register", method, Identity, NULL, form, 0, "", "")
        ELSE /\ resp' = Response("register", method, Identity, NULL, form, 302,
                    "You've already signed up with that email. Please login instead.",
                    "login")
             /\ UNCHANGED pending
    /\ UNCHANGED <<users, posts, comments, current_user, registered>>

\* register(), lines 99-105 and 108: the insert and its commit, under the
\* unique constraint of users.email.
RegisterCommit(w) ==
    /\ pending[w].busy
    /\ \E salt \in Salts :
        LET form == pending[w].form IN
        IF EmailUnique(users, form.email)
        THEN /\ Len(users) < MaxUsers
             /\ users' = InsertUser(users, form.email,
                            generate_password_hash(form.password, salt), form.name)
             /\ registered' = registered \cup {<<form.email, form.password>>}
             /\ resp' = Response("register", "POST", Identity, NULL, form, 302,
                    "Please login with your new email and password.", "login")
        ELSE /\ resp' = Response("register", "POST", Identity, NULL, form, 500, "", "")
             /\ UNCHANGED <<users, registered>>
    /\ pending' = [pending EXCEPT ![w] = Idle]
    /\ UNCHANGED <<posts, comments, current_user>>

\* ---------------------------------------------------------------- /login
\* A login that tells the requester when the email is unknown.
LoginOutcomeLeaky(us, cur, method, form) ==
    IF ~(method = "POST" /\ form.valid)
    THEN [status |-> 200, flash |-> "", location |-> "", user |-> cur]
    ELSE LET user == {u \in {us[i] : i \in DOMAIN us} : u.email = form.email} IN
         IF user = {}
         THEN [status |-> 302, flash |-> "No account with that email.",
               location |-> "register", user |-> cur]
         ELSE LET u == CHOOSE x \in user : TRUE IN
              IF u.password.digest = <<"pbkdf2:sha256", u.password.salt, form.password>>
              THEN [status |-> 302, flash |-> "", location |-> "get_all_posts",
                    user |-> u.id]
              ELSE [status |-> 302, flash |-> "That email or password is not correct.",
                    location |-> "login", user |-> cur]

\* login(), lines 114-129, as a function of the store and the request: the
\* status, the flashed message, the redirect target and the session's user.
LoginOutcome(us, cur, method, form) ==
    IF ~validate_on_submit(method, form)
    THEN [status |-> 200, flash |-> "", location |-> "", user |-> cur]
    ELSE LET user == UserByEmail(us, form.email) IN
         IF user = {}
         THEN [status |-> 302, flash |-> "That email or password is not correct.",
               location |-> "login", user |-> cur]
         ELSE LET u == CHOOSE x \in user : TRUE IN
              IF check_password_hash(u.password, form.password)
              THEN [status |-> 302, flash |-> "", location |-> "get_all_posts",
                    user |-> u.id]
              ELSE [status |-> 302, flash |-> "That email or password is not correct.",
                    location |-> "login", user |-> cur]

login ==
    \E method \in HttpMethods : \E form \in Submissions(method, LoginForms) :
        LET out == LoginOutcome(users, current_user, method, form) IN
        /\ current_user' = out.user
        /\ resp' = Response("login", method, Identity, NULL, form, out.status,
                            out.flash, out.location)
        /\ UNCHANGED <<users, posts, comments, pending, registered>>

\* --------------------------------------------------------------- /logout
\* logout(), lines 132-136: @login_required answers 401 to an anonymous
\* requester (no login view is configured); logout_user() clears the session.
logout ==
    \E method \in HttpMethods :
        \/ MethodNotAllowed("logout", method, NULL, EmptyForm)
        \/ /\ method \in Methods("logout")
           /\ IF Identity = Anonymous
              THEN /\ resp' = Response("logout", method, Identity, NULL, EmptyForm,
                                       401, "", "")
                   /\ UNCHANGED current_user
              ELSE /\ current_user' = Anonymous
                   /\ resp' = Response("logout", method, Identity, NULL, EmptyForm,
                                       302, "", "get_all_posts")
           /\ UNCHANGED <<users, posts, comments, pending, registered>>

NextAuth ==
    \/ \E w \in Workers : RegisterCheck(w)
    \/ \E w \in Workers : RegisterCommit(w)
    \/ login
    \/ logout

SpecAuth == Init /\ [][NextAuth]_vars

\* --------------------------------------------------------------------- /
\* BlogPost.query.all()
AllPosts(ps) == ps

get_all_posts ==
    /\ resp' = Response("get_all_posts", "GET", Identity, NULL, EmptyForm, 200, "", "")
    /\ UNCHANGED <<users, posts, comments, current_user, pending, registered>>

\* ------------------------------------------------------------ /post/<id>
\* db.session.add(new_comment); db.session.commit(): author_id and
\* blog_post_id are nullable foreign keys, a post of None is stored as NULL.
InsertComment(cs, author_id, requested_post, text) ==
    Append(cs, [id |-> NextId({c.id : c \in CommentRows(cs)}),
                author_id |-> author_id,
                blog_post_id |-> IF requested_post = {} THEN NULL
                                 ELSE (CHOOSE p \in requested_post : TRUE).id,
                text |-> text])

\* show_post(post_id), lines 139-151. No decorator guards the route. The
\* template post.html is rendered with the post or with None; what it does
\* with None is not fixed by main.py (a page, or a failure while rendering).
show_post ==
    \E method \in HttpMethods : \E post_id \in PostIds :
    \E form \in Submissions(method, CommentForms) :
        LET requested_post == PostGet(posts, post_id) IN
        IF validate_on_submit(method, form)
        THEN IF ~IsMapped(Identity)
             THEN /\ resp' = Response("show_post", method, Identity, post_id, form,
                                      500, "", "")
                  /\ UNCHANGED <<users, posts, comments, current_user, pending,
                                 registered>>
             ELSE /\ Len(comments) < MaxComments
                  /\ comments' = InsertComment(comments, Identity, requested_post,
                                               form.comment)
                  /\ resp' = Response("show_post", method, Identity, post_id, form,
                                      302, "", "show_post")
                  /\ UNCHANGED <<users, posts, current_user, pending, registered>>
        ELSE /\ \E status \in (IF requested_post = {} THEN {200, 500} ELSE {200}) :
                    resp' = Response("show_post", method, Identity, post_id, form,
                                     status, "", "")
             /\ UNCHANGED <<users, posts, comments, current_user, pending, registered>>

\* -------------------------------------------------------------- /new-post
\* BlogPost(title=..., author=current_user, date=...); add; commit
InsertPost(ps, author_id, form, today) ==
    ps \cup {[id |-> NextId(PostIdsOf(ps)), author_id |-> author_id,
              title |-> form.title, subtitle |-> form.subtitle,
              date |-> strftime(today), body |-> form.body,
              img_url |-> form.img_url]}

\* add_new_post(), lines 164-179. No decorator guards the route.
add_new_post ==
    \E method \in HttpMethods : \E form \in Submissions(method, CreatePostForms) :
    \E today \in Dates :
        IF validate_on_submit(method, form)
        THEN IF ~IsMapped(Identity) \/ ~TitleUnique(posts, form.title)
             THEN /\ resp' = Response("add_new_post", method, Identity, NULL, form,
                                      500, "", "")
                  /\ UNCHANGED <<users, posts, comments, current_user, pending,
                                 registered>>
             ELSE /\ NextId(PostIdsOf(posts)) <= MaxPostId
                  /\ posts' = InsertPost(posts, Identity, form, today)
                  /\ resp' = Response("add_new_post", method, Identity, NULL, form,
                                      302, "", "get_all_posts")
                  /\ UNCHANGED <<users, comments, current_user, pending, registered>>
        ELSE /\ resp' = Response("add_new_post", method, Identity, NULL, form,
                                 200, "", "")
             /\ UNCHANGED <<users, posts, comments, current_user, pending, registered>>

\* ------------------------------------------------------- admin_required
\* admin_required, lines 34-43: the wrapped view runs for the user of id 1
\* and for no one else; every other requester gets abort(403).
admin_required(identity) == identity # Anonymous /\ identity = AdminId

Forbidden(route, method, post_id, form) ==
    /\ resp' = Response(route, method, Identity, post_id, form, 403, "", "")
    /\ UNCHANGED <<users, posts, comments, current_user, pending, registered>>

\* -------------------------------------------------------- /edit-post/<id>
\* lines 194-199: the post's fields are set from the form and committed.
UpdatePost(ps, post, form) ==
    (ps \ {post}) \cup
        {[post EXCEPT !.title = form.title, !.subtitle = form.subtitle,
                      !.img_url = form.img_url, !.body = form.body]}

\* edit_post(post_id), lines 182-202. The route names no methods, so it
\* accepts GET alone.
edit_post ==
    \E method \in HttpMethods : \E post_id \in PostIds :
    \E form \in Submissions(method, CreatePostForms) :
        \/ MethodNotAllowed("edit_post", method, post_id, form)
        \/ /\ method \in Methods("edit_post")
           /\ IF ~admin_required(Identity)
              THEN Forbidden("edit_post", method, post_id, form)
              ELSE LET post == PostGet(posts, post_id) IN
                   IF post = {}
                   THEN /\ resp' = Response("edit_post", method, Identity, post_id,
                                            form, 500, "", "")
                        /\ UNCHANGED <<users, posts, comments, current_user, pending,
                                       registered>>
                   ELSE IF validate_on_submit(method, form)
                   THEN /\ posts' = UpdatePost(posts, CHOOSE p \in post : TRUE, form)
                        /\ resp' = Response("edit_post", method, Identity, post_id,
                                            form, 302, "", "show_post")
                        /\ UNCHANGED <<users, comments, current_user, pending,
                                       registered>>
                   ELSE /\ resp' = Response("edit_post", method, Identity, post_id,
                                            form, 200, "", "")
                        /\ UNCHANGED <<users, posts, comments, current_user, pending,
                                       registered>>

\* ----------------------------------------------------------- /delete/<id>
\* db.session.delete(post_to_delete); db.session.commit(): the relationship
\* BlogPost.comments has no delete cascade, so the post's comments stay and
\* their blog_post_id is set to NULL.
DeletePost(ps, post) == ps \ {post}

\* A delete that clears the post reference of every comment.
DeletePostCommentsAll(cs, post) ==
    [i \in DOMAIN cs |-> [cs[i] EXCEPT !.blog_post_id = NULL]]

DeletePostComments(cs, post) ==
    [i \in DOMAIN cs |->
        IF cs[i].blog_post_id = post.id THEN [cs[i] EXCEPT !.blog_post_id = NULL]
        ELSE cs[i]]

\* delete_post(post_id), lines 205-211.
delete_post ==
    \E method \in HttpMethods : \E post_id \in PostIds :
        \/ MethodNotAllowed("delete_post", method, post_id, EmptyForm)
        \/ /\ method \in Methods("delete_post")
           /\ IF ~admin_required(Identity)
              THEN Forbidden("delete_post", method, post_id, EmptyForm)
              ELSE LET post_to_delete == PostGet(posts, post_id) IN
                   IF post_to_delete = {}
                   THEN /\ resp' = Response("delete_post", method, Identity, post_id,
                                            EmptyForm, 500, "", "")
                        /\ UNCHANGED <<users, posts, comments, current_user, pending,
                                       registered>>
                   ELSE LET post == CHOOSE p \in post_to_delete : TRUE IN
                        /\ posts' = DeletePost(posts, post)
                        /\ comments' = DeletePostComments(comments, post)
                        /\ resp' = Response("delete_post", method, Identity, post_id,
                                            EmptyForm, 302, "", "get_all_posts")
                        /\ UNCHANGED <<users, current_user, pending, registered>>

NextBlog ==
    \/ login
    \/ logout
    \/ get_all_posts
    \/ show_post
    \/ add_new_post
    \/ edit_post
    \/ delete_post

SpecBlog == InitBlog /\ [][NextBlog]_vars

Next == NextAuth \/ NextBlog

Spec == Init /\ [][Next]_vars

\* ================================================================ claims
Privileged == {"add_new_post", "edit_post", "delete_post"}

\* C1: a request to a privileged operation by an anonymous or non-administrator
\* identity never makes a BlogPost exist, change or disappear: the stored posts
\* are the same before and after every such request.
C1_NonAdminLeavesPosts ==
    [][(resp'.route \in Privileged /\ resp'.by # AdminId) => posts' = posts]_vars

\* C2: every stored Comment references an existing User as author and an
\* existing BlogPost as parent, in every reachable state (also after a
\* delete_post, and after a comment submitted to a post id that does not exist).
C2_CommentsReferToExisting ==
    \A c \in CommentRows(comments) :
        /\ c.author_id \in UserIds(users)
        /\ c.blog_post_id \in PostIdsOf(posts)

\* C3: no reachable state holds two User records with the same email, under
\* every interleaving of the pre-checks and commits of registration requests.
C3_EmailUnique ==
    \A i, j \in DOMAIN users : users[i].email = users[j].email => i = j

\* C3 witness: a registration passed the pre-check, then lost to another
\* registration of the same email at its commit.
C3_Witness ==
    /\ resp.route = "register"
    /\ resp.status = 500
    /\ \E u \in UserRows(users) : u.email = resp.form.email

\* What the requester of a login observes.
Observable(out, cur) ==
    [status |-> out.status, flash |-> out.flash, location |-> out.location,
     established |-> out.user # cur]

UnknownEmail(form) == \A u \in UserRows(users) : u.email # form.email

WrongPassword(form) ==
    /\ \E u \in UserRows(users) : u.email = form.email
    /\ <<form.email, form.password>> \notin registered

\* C4: in every store state, a login with an unknown email and a login with a
\* known email and a wrong password are answered alike: the same flashed
\* message, the same redirect target, and no session established.
C4_LoginFailuresAlike ==
    \A f, g \in LoginForms :
        (UnknownEmail(f) /\ WrongPassword(g)) =>
            /\ Observable(LoginOutcome(users, current_user, "POST", f), current_user)
               = Observable(LoginOutcome(users, current_user, "POST", g), current_user)
            /\ ~Observable(LoginOutcome(users, current_user, "POST", f),
                           current_user).established

\* C4 witness: a login has just failed in a store where both kinds of failing
\* attempt exist (one email is registered, another is not).
C4_Witness ==
    /\ resp.route = "login"
    /\ resp.status = 302
    /\ resp.location = "login"
    /\ \E f, g \in LoginForms : UnknownEmail(f) /\ WrongPassword(g)

\* C5: a valid comment submission by an anonymous identity is answered with a
\* redirect to login or a 403, and leaves the stored comments unchanged.
C5_AnonymousCommentUnauthenticated ==
    [][(/\ resp'.route = "show_post"
        /\ validate_on_submit(resp'.method, resp'.form)
        /\ resp'.by = Anonymous)
       => (/\ \/ resp'.status = 403
              \/ resp'.status = 302 /\ resp'.location = "login"
           /\ comments' = comments)]_vars

\* C6: a create_post by the administrator with the title of a stored post is
\* answered with a flashed message and a redirect, and leaves the posts
\* unchanged.
C6_DuplicateTitleRejected ==
    [][(/\ resp'.route = "add_new_post"
        /\ validate_on_submit(resp'.method, resp'.form)
        /\ resp'.by = AdminId
        /\ \E p \in posts : p.title = resp'.form.title)
       => (/\ resp'.status = 302
           /\ resp'.flash # ""
           /\ posts' = posts)]_vars

\* C7: an edit_post or delete_post of the administrator, or a request of the
\* post page by anyone, with a post id that matches no stored post is answered
\* with 404 and leaves users, posts and comments unchanged.
C7_MissingPostNotFound ==
    [][(/\ \/ resp'.route \in {"edit_post", "delete_post"} /\ resp'.by = AdminId
           \/ resp'.route = "show_post" /\ resp'.method = "GET"
        /\ PostGet(posts, resp'.post_id) = {})
       => (/\ resp'.status = 404
           /\ UNCHANGED <<users, posts, comments>>)]_vars

\* C8: after the administrator's delete_post(P) of a stored post P, P is not
\* in the list of posts and get(P) finds nothing, every other post and every
\* user is unchanged, and so is every comment whose parent is another post.
C8_DeleteFrame ==
    [][(/\ resp'.route = "delete_post"
        /\ resp'.method \in Methods("delete_post")
        /\ resp'.by = AdminId
        /\ PostGet(posts, resp'.post_id) # {})
       => (/\ \A p \in AllPosts(posts') : p.id # resp'.post_id
           /\ PostGet(posts', resp'.post_id) = {}
           /\ posts' = {p \in posts : p.id # resp'.post_id}
           /\ users' = users
           /\ DOMAIN comments' = DOMAIN comments
           /\ \A i \in DOMAIN comments :
                  comments[i].blog_post_id # resp'.post_id =>
                      comments'[i] = comments[i])]_vars

\* C8 witness: a post was just deleted while another post, with a comment on
\* it, is stored.
C8_Witness ==
    /\ resp.route = "delete_post"
    /\ resp.status = 302
    /\ \E c \in CommentRows(comments) : c.blog_post_id \in PostIdsOf(posts)

\* The login request r carries a registered email and its registration password.
GoodCredentials(r) ==
    /\ validate_on_submit(r.method, r.form)
    /\ <<r.form.email, r.form.password>> \in registered

\* C9: the session's identity follows the logins and logouts: a login with a
\* registered email and its registration password binds that user's id, any
\* other login leaves the identity as it was, a logout of a logged-in identity
\* makes it Anonymous, a logout of an anonymous identity is refused and changes
\* nothing, and no other request changes the identity.
C9_IdentityFollowsLoginLogout ==
    [][/\ (resp'.route = "login" /\ GoodCredentials(resp')) =>
              \E u \in UserRows(users) :
                  u.email = resp'.form.email /\ current_user' = u.id
       /\ (resp'.route = "login" /\ ~GoodCredentials(resp')) =>
              current_user' = current_user
       /\ (/\ resp'.route = "logout"
           /\ resp'.method \in Methods("logout")
           /\ current_user # Anonymous) => current_user' = Anonymous
       /\ (/\ resp'.route = "logout"
           /\ resp'.method \in Methods("logout")
           /\ current_user = Anonymous) =>
              /\ resp'.status = 401
              /\ UNCHANGED <<users, posts, comments, current_user>>
       /\ resp'.route \notin {"login", "logout"} => current_user' = current_user
      ]_vars

\* C9 witness: a logged-in user has just logged out.
C9_Witness ==
    /\ resp.route = "logout"
    /\ resp.status = 302
    /\ resp.by # Anonymous
    /\ current_user = Anonymous

\* C10: after an edit_post by the administrator on a stored post with valid
\* submitted fields, the post has the submitted title, subtitle, image URL and
\* body and its former id, date and comments, and no other post has changed.
C10_EditMutates ==
    [][(/\ resp'.route = "edit_post"
        /\ resp'.by = AdminId
        /\ validate_on_submit(resp'.method, resp'.form)
        /\ PostGet(posts, resp'.post_id) # {})
       => (/\ \E p \in posts : \E q \in posts' :
                /\ p.id = resp'.post_id
                /\ q.id = p.id
                /\ q.title = resp'.form.title
                /\ q.subtitle = resp'.form.subtitle
                /\ q.img_url = resp'.form.img_url
                /\ q.body = resp'.form.body
                /\ q.date = p.date
           /\ {p \in posts' : p.id # resp'.post_id}
              = {p \in posts : p.id # resp'.post_id}
           /\ comments' = comments)]_vars

====
